---- MODULE Spec2Model ----
(***************************************************************************)
(* Authentication and authorization core of the clinic management API:     *)
(* AuthService (register, login, refresh, logout), the passport JWT        *)
(* strategies, and the role / permission / combined guards.                *)
(*                                                                         *)
(* Request handlers are async functions: between two awaited store         *)
(* operations another request may run.  Each handler is therefore a        *)
(* sequence of atomic steps, one per store read or write, executed by a    *)
(* request slot (Procs).                                                   *)
(***************************************************************************)
EXTENDS Integers, Sequences, FiniteSets, TLC

(* ------------------------------ bounds --------------------------------- *)

\* The clock runs from 0 to MaxTime (whole seconds, as in a JWT iat / exp).
MaxTime == 1

\* ------------------------- program constants ----------------------------

\* jwt.expiresIn and jwt.refreshExpiresIn, in clock units of the model.
AccessExpiresIn == 1

RefreshExpiresIn == 2

\* jwt.secret and jwt.refreshSecret
JwtSecret == "your-secret-key"

RefreshSecret == "your-refresh-secret"

(* ------------------------------ universe ------------------------------- *)

Procs == {"p1", "p2"}

UserIds == {"u1"}

\* Handles that requests may carry; "nobody@clinic" never belongs to a user.
Emails == {"a@clinic", "nobody@clinic"}

Passwords == {"pw1", "pw2"}

Salts == {"s1"}

RoleIds == {"r_admin", "r_doctor"}

Times == 0..MaxTime

\* JavaScript undefined / null, for values that are otherwise strings
Undefined == "<undefined>"

NoTime == -1

(* ------------------------------- tokens -------------------------------- *)

\* A token as a client holds it: a signed JWT, or something that is not one.
NoClaims == [sub |-> Undefined, email |-> Undefined, iat |-> NoTime, exp |-> NoTime]

NoToken == [fmt |-> "none", payload |-> NoClaims, sig |-> Undefined]

Garbage == [fmt |-> "garbage", payload |-> NoClaims, sig |-> Undefined]

NoPair == [accessToken |-> NoToken, refreshToken |-> NoToken]

\* JS property read: a property the object does not have reads as undefined
Get(obj, field) == IF field \in DOMAIN obj THEN obj[field] ELSE Undefined

Has(obj, field) == field \in DOMAIN obj

\* jwtService.signAsync(payload, {secret, expiresIn}): adds iat and exp
SignAsync(payload, secret, expiresIn, t) ==
  [fmt |-> "jwt",
   payload |-> payload @@ [iat |-> t, exp |-> t + expiresIn],
   sig |-> secret]

\* a verification configured with ignoreExpiration: true
JwtVerifyIgnoreExpiration(token, secret, t) ==
  /\ token.fmt = "jwt"
  /\ token.sig = secret

\* a verification that tolerates a clock one second behind
JwtVerifyWithClockTolerance(token, secret, t) ==
  /\ token.fmt = "jwt"
  /\ token.sig = secret
  /\ t <= token.payload.exp + 1

\* jsonwebtoken verify, as passport-jwt calls it with ignoreExpiration: false
JwtVerify(token, secret, t) ==
  /\ token.fmt = "jwt"
  /\ token.sig = secret
  /\ t < token.payload.exp

(* ------------------------------- argon2 -------------------------------- *)

\* hash(secret): salted and one-way; verify(hash, candidate)
Argon2Hash(plain, salt) == [isNull |-> FALSE, plain |-> plain, salt |-> salt]

Argon2Verify(hashed, candidate) == hashed.plain = candidate

\* the encoded string ($argon2id$v=19$...) hash(secret) resolves to
Argon2Encoded(plain) ==
  [pw1 |-> "$argon2id$v=19$pw1", pw2 |-> "$argon2id$v=19$pw2"][plain]

\* a stored value that is not the encoding of an argon2 hash
Malformed == "<malformed>"

MalformedPasswordHash == [isNull |-> FALSE, plain |-> Undefined, salt |-> Malformed]

MalformedTokenHash == [isNull |-> FALSE, plain |-> NoToken, salt |-> Malformed]

\* what verify(hashed, candidate) can do besides answering: on a stored value
\* it cannot decode it throws, or answers false when only the algorithm id is
\* unknown; on a well-formed hash it never throws
Argon2VerifyThrows(hashed) == IF hashed.salt = Malformed THEN BOOLEAN ELSE {FALSE}

NullTokenHash == [isNull |-> TRUE, plain |-> NoToken, salt |-> Undefined]

NullPasswordHash == [isNull |-> TRUE, plain |-> Undefined, salt |-> Undefined]

\* request.user, the identity context the guards read.  A JS object is flattened
\* into kinds and values:
\*   roleKind       typeof user.role: "undefined", "string" or "object"
\*   roleName       user.role (a string) or user.role.name (an object)
\*   permsKind      user.permissions: "undefined", "array", or "other" (truthy, no array)
\*   rolePermsKind  user.role.permissions: "undefined" or "array"
\*   rolePerms      the permission.name of each entry of user.role.permissions
\* no request.user: no strategy has populated it
NoUser ==
  [present |-> FALSE, id |-> Undefined, email |-> Undefined,
   roleKind |-> "undefined", roleName |-> Undefined,
   permsKind |-> "undefined", permissions |-> <<>>,
   rolePermsKind |-> "undefined", rolePerms |-> <<>>]

\* reflector.getAllAndOverride(key, ...): undefined when the route declares no
\* metadata, else the declared array (which may be empty)
NoMeta == [kind |-> "undefined", items |-> <<>>]

Meta(items) == [kind |-> "array", items |-> items]

(* ---------------------------- state ------------------------------------ *)

VARIABLES
  users,        \* prisma.user: id -> row
  roles,        \* prisma.role with its rolePermission rows: id -> row
  now,          \* the clock, in seconds
  pc,           \* per request slot: the step its handler is at
  local,        \* per request slot: the handler's local variables
  resp,         \* the outcome of the request that finished last
  issued,       \* history: every token pair a handler has returned to a client
  lastRotated,  \* history: per user, the token of the last updateRefreshToken
  loggedOut,    \* history: per user, logout ran and no login/register stored a hash since
  ctx           \* the request.user and route metadata handed to a guard on its own

vars == <<users, roles, now, pc, local, resp, issued, lastRotated, loggedOut, ctx>>

NoUserRow ==
  [exists |-> FALSE, email |-> Undefined, password |-> NullPasswordHash,
   isActive |-> FALSE, roleId |-> Undefined, lastLoginAt |-> NoTime,
   hashedRefreshToken |-> NullTokenHash]

\* prisma.user.create with the schema defaults (isActive true, no refresh hash)
NewUserRow(email, hashedPassword, roleId) ==
  [exists |-> TRUE, email |-> email, password |-> hashedPassword,
   isActive |-> TRUE, roleId |-> roleId, lastLoginAt |-> NoTime,
   hashedRefreshToken |-> NullTokenHash]

\* prisma.user.findUnique({ where: { email } }): the matching ids (at most one)
FindUniqueByEmail(email) == {u \in UserIds : users[u].exists /\ users[u].email = email}

\* prisma.user.findUnique({ where: { id } }): the row, or none
FindUniqueById(id) == IF id \in UserIds THEN users[id] ELSE NoUserRow

\* the role name and flattened permission names of a user, as stored
StoredRoleName(u) == roles[users[u].roleId].name

StoredPermissions(u) == roles[users[u].roleId].permissions

NoLocal ==
  [op |-> "none", uid |-> Undefined, email |-> Undefined, tokens |-> NoPair,
   verified |-> NoToken, compared |-> NoToken, afterLogout |-> FALSE]

NoResp ==
  [op |-> "none", status |-> "none", message |-> Undefined, email |-> Undefined,
   uid |-> Undefined, tokens |-> NoPair, route |-> Undefined, user |-> NoUser,
   evaluated |-> <<>>]

Failure(op, status, message) ==
  [NoResp EXCEPT !.op = op, !.status = status, !.message = message]

NoCtx == [user |-> NoUser, roles |-> NoMeta, permissions |-> NoMeta]

Init ==
  /\ users \in {[u \in UserIds |-> NoUserRow],
                [u \in UserIds |->
                   NewUserRow("a@clinic", Argon2Hash("pw1", "s1"), "r_doctor")]}
  /\ roles = [r \in RoleIds |->
                IF r = "r_admin"
                THEN [name |-> "admin", isActive |-> TRUE,
                      permissions |-> <<"manage_roles", "view_patients">>]
                ELSE [name |-> "doctor", isActive |-> TRUE,
                      permissions |-> <<"view_patients", "create_medical_records">>]]
  /\ now = 0
  /\ pc = [p \in Procs |-> "idle"]
  /\ local = [p \in Procs |-> NoLocal]
  /\ resp = NoResp
  /\ issued = {}
  /\ lastRotated = [u \in UserIds |-> NoToken]
  /\ loggedOut = [u \in UserIds |-> FALSE]
  /\ ctx = NoCtx

(* --------------------------- AuthService ------------------------------- *)

\* generateTokens that signs the refresh token with the access secret
generateTokensOneSecret(userId, email, t) ==
  LET payload == [sub |-> userId, email |-> email]
  IN  [accessToken |-> SignAsync(payload, JwtSecret, AccessExpiresIn, t),
       refreshToken |-> SignAsync(payload, JwtSecret, RefreshExpiresIn, t)]

\* AuthService.generateTokens: both tokens are signed over the same payload
generateTokens(userId, email, t) ==
  LET payload == [sub |-> userId, email |-> email]
  IN  [accessToken |-> SignAsync(payload, JwtSecret, AccessExpiresIn, t),
       refreshToken |-> SignAsync(payload, RefreshSecret, RefreshExpiresIn, t)]

\* updateRefreshToken that stores a hash only when none is stored yet
updateRefreshTokenKeepExisting(row, refreshToken, salt) ==
  IF row.hashedRefreshToken.isNull
  THEN [row EXCEPT !.hashedRefreshToken = Argon2Hash(refreshToken, salt)]
  ELSE row

\* AuthService.updateRefreshToken: hash the token, overwrite the user's column
updateRefreshToken(row, refreshToken, salt) ==
  [row EXCEPT !.hashedRefreshToken = Argon2Hash(refreshToken, salt)]

\* a stored-hash test that accepts any token of an existing user
verifyPresentedAnyToken(row, refreshToken) == row.exists

\* the stored-hash test of AuthService.refresh: false when user or hash is missing
verifyPresented(row, refreshToken) ==
  /\ row.exists
  /\ ~row.hashedRefreshToken.isNull
  /\ Argon2Verify(row.hashedRefreshToken, refreshToken)

\* UsersService.findByEmail: the row, or NotFoundException
findByEmail(email) ==
  IF FindUniqueByEmail(email) = {}
  THEN [found |-> FALSE, uid |-> Undefined]
  ELSE [found |-> TRUE, uid |-> CHOOSE u \in FindUniqueByEmail(email) : TRUE]

\* a login check that does not look at isActive
loginCheckIgnoringActive(email, password) ==
  LET f == findByEmail(email)
  IN  IF ~f.found THEN Failure("login", "notfound", "User not found")
      ELSE IF ~Argon2Verify(users[f.uid].password, password)
             THEN Failure("login", "unauthorized", "Invalid credentials")
      ELSE [NoResp EXCEPT !.op = "login", !.status = "pass", !.uid = f.uid]

\* AuthService.login up to the password check: what it throws, or "pass"
loginCheck(email, password) ==
  LET f == findByEmail(email)
  IN  IF ~f.found THEN Failure("login", "notfound", "User not found")
      ELSE IF ~users[f.uid].isActive
             THEN Failure("login", "unauthorized", "Invalid credentials")
      ELSE IF ~Argon2Verify(users[f.uid].password, password)
             THEN Failure("login", "unauthorized", "Invalid credentials")
      ELSE [NoResp EXCEPT !.op = "login", !.status = "pass", !.uid = f.uid]

\* login: findByEmail, the active check and the password check; an exception
\* out of verify is not caught and ends the request in a 500
LoginStart(p, email, password) ==
  /\ pc[p] = "idle"
  /\ LET c == loginCheck(email, password)
         f == findByEmail(email)
         verified == f.found /\ users[f.uid].isActive
     IN  \E throws \in (IF verified THEN Argon2VerifyThrows(users[f.uid].password)
                        ELSE {FALSE}) :
           IF throws
           THEN /\ resp' = [Failure("login", "error", "Internal server error")
                              EXCEPT !.email = email]
                /\ UNCHANGED <<pc, local>>
           ELSE IF c.status = "pass"
           THEN /\ pc' = [pc EXCEPT ![p] = "lastLogin"]
                /\ local' = [local EXCEPT ![p] =
                               [NoLocal EXCEPT !.op = "login", !.uid = c.uid,
                                               !.email = users[c.uid].email]]
                /\ UNCHANGED resp
           ELSE /\ resp' = [c EXCEPT !.email = email]
                /\ UNCHANGED <<pc, local>>
  /\ UNCHANGED <<users, roles, ctx, now, issued, lastRotated, loggedOut>>

\* login: usersService.updateLastLogin(user.id)
LoginUpdateLastLogin(p) ==
  /\ pc[p] = "lastLogin"
  /\ users' = [users EXCEPT ![local[p].uid].lastLoginAt = now]
  /\ pc' = [pc EXCEPT ![p] = "tokens"]
  /\ UNCHANGED <<roles, ctx, now, local, resp, issued, lastRotated, loggedOut>>

\* login / register / refresh: generateTokens(user.id, user.email)
GenerateTokensStep(p) ==
  /\ pc[p] = "tokens"
  /\ local' = [local EXCEPT ![p].tokens =
                  generateTokens(local[p].uid, local[p].email, now)]
  /\ pc' = [pc EXCEPT ![p] = "rotate"]
  /\ UNCHANGED <<users, roles, ctx, now, resp, issued, lastRotated, loggedOut>>

\* login / register / refresh: updateRefreshToken(user.id, tokens.refreshToken),
\* then the handler returns the tokens
UpdateRefreshTokenStep(p) ==
  /\ pc[p] = "rotate"
  /\ \E salt \in Salts :
       users' = [users EXCEPT ![local[p].uid] =
                   updateRefreshToken(@, local[p].tokens.refreshToken, salt)]
  /\ lastRotated' = [lastRotated EXCEPT ![local[p].uid] = local[p].tokens.refreshToken]
  /\ loggedOut' = [loggedOut EXCEPT ![local[p].uid] =
                     IF local[p].op \in {"login", "register"} THEN FALSE ELSE @]
  /\ resp' = [NoResp EXCEPT !.op = local[p].op, !.status = "ok",
                              !.uid = local[p].uid, !.email = local[p].email,
                              !.tokens = local[p].tokens]
  /\ issued' = issued \cup {local[p].tokens}
  /\ local' = [local EXCEPT ![p] = NoLocal]
  /\ pc' = [pc EXCEPT ![p] = "idle"]
  /\ UNCHANGED <<roles, ctx, now>>

(* ------------------------ passport strategies -------------------------- *)

\* validate that takes the user id from the wrong claim
JwtStrategy_validateIdFromEmail(payload) ==
  [present |-> TRUE, id |-> payload.email, email |-> payload.email,
   roleKind |-> "object", roleName |-> Get(payload, "role"),
   permsKind |-> IF Has(payload, "permissions") THEN "array" ELSE "undefined",
   permissions |-> IF Has(payload, "permissions") THEN payload.permissions ELSE <<>>,
   rolePermsKind |-> "undefined", rolePerms |-> <<>>]

\* validate that loads the user of payload.sub from the store on every request
\* and rejects a missing or inactive one
JwtStrategy_validateFromStore(payload) ==
  LET row == FindUniqueById(payload.sub)
  IN  IF ~row.exists \/ ~row.isActive THEN NoUser
      ELSE [present |-> TRUE, id |-> payload.sub, email |-> row.email,
            roleKind |-> "object", roleName |-> roles[row.roleId].name,
            permsKind |-> "undefined", permissions |-> <<>>,
            rolePermsKind |-> "array", rolePerms |-> roles[row.roleId].permissions]

\* JwtStrategy.validate: the user object is built from the payload alone
\*   { id: payload.sub, email: payload.email,
\*     role: { name: payload.role }, permissions: payload.permissions }
JwtStrategy_validate(payload) ==
  [present |-> TRUE, id |-> payload.sub, email |-> payload.email,
   roleKind |-> "object", roleName |-> Get(payload, "role"),
   permsKind |-> IF Has(payload, "permissions") THEN "array" ELSE "undefined",
   permissions |-> IF Has(payload, "permissions") THEN payload.permissions ELSE <<>>,
   rolePermsKind |-> "undefined", rolePerms |-> <<>>]

\* JwtStrategy as configured: bearer token from the authorization header,
\* secretOrKey jwt.secret, ignoreExpiration false; then validate(payload)
JwtStrategy(bearer, t) ==
  IF JwtVerify(bearer, JwtSecret, t)
  THEN JwtStrategy_validate(bearer.payload)
  ELSE NoUser

\* RefreshStrategy.validate(req, payload): the raw token is re-read from the
\* authorization header (req.get('authorization')), not from the body
RefreshStrategy_validate(header, payload) ==
  IF header = NoToken
  THEN [ok |-> FALSE, sub |-> Undefined, refreshToken |-> NoToken]
  ELSE [ok |-> TRUE, sub |-> payload.sub, refreshToken |-> header]

\* RefreshStrategy as configured: token from body field 'refresh',
\* secretOrKey refresh secret, ignoreExpiration false; then validate(req, payload)
RefreshStrategy(body, header, t) ==
  IF JwtVerify(body, RefreshSecret, t)
  THEN RefreshStrategy_validate(header, body.payload)
  ELSE [ok |-> FALSE, sub |-> Undefined, refreshToken |-> NoToken]

\* a correctly formed token signed with a key the server does not use
Forged ==
  [fmt |-> "jwt",
   payload |-> [sub |-> "u1", email |-> "a@clinic", iat |-> 0, exp |-> MaxTime + 2],
   sig |-> "attacker-secret"]

\* a refresh token the server signed for an identity whose row is gone
\* (SeedingService.clearDatabase deletes the users)
Orphaned ==
  [fmt |-> "jwt",
   payload |-> [sub |-> "u_gone", email |-> "gone@clinic", iat |-> 0, exp |-> MaxTime + 2],
   sig |-> RefreshSecret]

\* every access and refresh token returned to a client so far
IssuedTokens ==
  {pair.accessToken : pair \in issued} \cup {pair.refreshToken : pair \in issued}

\* what a client can put into a request: any token ever issued, or its own
Presentable ==
  {pair.accessToken : pair \in issued} \cup {pair.refreshToken : pair \in issued}
    \cup {Forged, Orphaned, Garbage, NoToken}

(* ------------------------------- guards -------------------------------- *)

\* Array.prototype.includes
Includes(arr, x) == \E i \in 1..Len(arr) : arr[i] = x

\* a rolePermission entry that has no nested permission object
NoPermission == "<no permission>"

\* RolesGuard.canActivate
RolesGuard_canActivate(requiredRoles, user) ==
  IF requiredRoles.kind = "undefined" THEN TRUE
  ELSE IF ~user.present THEN FALSE
  ELSE LET userRole == IF user.roleKind = "string" THEN user.roleName
                       ELSE IF user.roleKind = "object" THEN user.roleName
                       ELSE Undefined
       IN  Includes(requiredRoles.items, userRole)

\* PermissionsGuard.canActivate of src/common/guards/permissions.guard.ts, the
\* file the controllers and CombinedAuthGuard import: "true", "false", or
\* "TypeError" when rp.permission is undefined
PermissionsGuard_canActivate(requiredPermissions, user) ==
  IF requiredPermissions.kind = "undefined" THEN "true"
  ELSE IF ~user.present \/ user.roleKind # "object" \/ user.rolePermsKind # "array"
    THEN "false"
  ELSE IF Includes(user.rolePerms, NoPermission) THEN "TypeError"
  ELSE IF \E i \in 1..Len(requiredPermissions.items) :
            Includes(user.rolePerms, requiredPermissions.items[i])
    THEN "true"
  ELSE "false"

\* PermissionsGuard.canActivate, the version that reads the JWT user shape
\* (user.permissions) first and falls back to user.role.permissions
PermissionsGuardJwt_canActivate(requiredPermissions, user) ==
  IF requiredPermissions.kind = "undefined" THEN "true"
  ELSE IF ~user.present THEN "false"
  ELSE LET fromRole == user.permsKind # "array" /\ user.roleKind = "object"
                         /\ user.rolePermsKind = "array"
           userPermissions == IF user.permsKind = "array" THEN user.permissions
                              ELSE IF fromRole THEN user.rolePerms
                              ELSE <<>>
       IN  IF fromRole /\ Includes(user.rolePerms, NoPermission) THEN "TypeError"
           ELSE IF \E i \in 1..Len(requiredPermissions.items) :
                     Includes(userPermissions, requiredPermissions.items[i])
             THEN "true"
           ELSE "false"

\* JwtAuthGuard.canActivate: passport's AuthGuard('jwt') rejects a request whose
\* strategy produced no user with UnauthorizedException
JwtAuthGuard_canActivate(user) == IF user.present THEN "true" ELSE "Unauthorized"

\* a combined guard that lets a request pass on either check
CombinedAuthGuard_canActivateAnyOf(user, requiredRoles, requiredPermissions) ==
  LET isAuthenticated == JwtAuthGuard_canActivate(user)
      hasRequiredRole == RolesGuard_canActivate(requiredRoles, user)
      hasRequiredPermission == PermissionsGuard_canActivate(requiredPermissions, user)
  IN  IF isAuthenticated # "true"
        THEN [result |-> isAuthenticated, evaluated |-> <<"jwt">>]
      ELSE IF hasRequiredRole
        THEN [result |-> "true", evaluated |-> <<"jwt", "roles">>]
      ELSE [result |-> hasRequiredPermission,
            evaluated |-> <<"jwt", "roles", "permissions">>]

\* CombinedAuthGuard.canActivate: `user` is what the JWT strategy produced.
\* result: "true", "false", or the exception thrown; evaluated: the guards run
CombinedAuthGuard_canActivate(user, requiredRoles, requiredPermissions) ==
  LET isAuthenticated == JwtAuthGuard_canActivate(user)
      hasRequiredRole == RolesGuard_canActivate(requiredRoles, user)
      hasRequiredPermission == PermissionsGuard_canActivate(requiredPermissions, user)
  IN  IF isAuthenticated # "true"
        THEN [result |-> isAuthenticated, evaluated |-> <<"jwt">>]
      ELSE IF ~hasRequiredRole
        THEN [result |-> "false", evaluated |-> <<"jwt", "roles">>]
      ELSE IF hasRequiredPermission # "true"
        THEN [result |-> hasRequiredPermission,
              evaluated |-> <<"jwt", "roles", "permissions">>]
      ELSE [result |-> "true", evaluated |-> <<"jwt", "roles", "permissions">>]

\* how Nest answers a guard outcome: false is ForbiddenException (403)
GuardStatus(result) ==
  IF result = "true" THEN "ok"
  ELSE IF result = "false" THEN "forbidden"
  ELSE IF result = "Unauthorized" THEN "unauthorized"
  ELSE "error"

\* routes and the metadata they declare: POST patient/:id/examinations
\* (@Roles('admin', 'super_admin', 'doctor'),
\* @RequirePermissions('create_medical_records')), POST /roles
\* (@RequirePermissions('manage_roles')) and GET /auth/profile (none)
Routes ==
  [medicalRecordsCreate |-> [roles |-> Meta(<<"admin", "super_admin", "doctor">>),
                             permissions |-> Meta(<<"create_medical_records">>)],
   rolesManage          |-> [roles |-> NoMeta,
                             permissions |-> Meta(<<"manage_roles">>)],
   profile              |-> [roles |-> NoMeta, permissions |-> NoMeta]]

(* ------------------ register, refresh, logout, remove ------------------- *)

\* register: usersService.create(createUserDto)
RegisterCreate(p, email, password, roleId, salt) ==
  /\ pc[p] = "idle"
  /\ IF FindUniqueByEmail(email) # {}
     THEN /\ resp' =
               Failure("register", "conflict", "User with this email already exists")
          /\ UNCHANGED <<users, pc, local>>
     ELSE IF ~roles[roleId].isActive
     THEN /\ resp' = Failure("register", "badrequest", "Invalid or inactive role")
          /\ UNCHANGED <<users, pc, local>>
     ELSE /\ \E id \in UserIds :
               /\ ~users[id].exists
               /\ users' = [users EXCEPT ![id] =
                    NewUserRow(email, Argon2Hash(password, salt), roleId)]
               /\ local' = [local EXCEPT ![p] =
                    [NoLocal EXCEPT !.op = "register", !.uid = id, !.email = email]]
          /\ pc' = [pc EXCEPT ![p] = "tokens"]
          /\ UNCHANGED resp
  /\ UNCHANGED <<roles, ctx, now, issued, lastRotated, loggedOut>>

\* a refresh that answers a failed stored-hash check with 403 Forbidden
refreshDeniedAsForbidden == Failure("refresh", "forbidden", "Access denied")

\* AuthService.refresh: throw new UnauthorizedException('Access denied')
refreshDenied == Failure("refresh", "unauthorized", "Access denied")

\* POST /auth/refresh: JwtRefreshGuard (RefreshStrategy), then
\* authService.refresh(user.sub, user.refreshToken) up to the hash check
RefreshStart(p, body, header) ==
  /\ pc[p] = "idle"
  /\ LET g == RefreshStrategy(body, header, now)
         row == FindUniqueById(g.sub)
         verified == g.ok /\ row.exists /\ ~row.hashedRefreshToken.isNull
     IN  \E throws \in (IF verified THEN Argon2VerifyThrows(row.hashedRefreshToken)
                        ELSE {FALSE}) :
         IF throws
         THEN /\ resp' = Failure("refresh", "error", "Internal server error")
              /\ UNCHANGED <<pc, local>>
         ELSE IF ~g.ok
         THEN /\ resp' =
                   Failure("refresh", "unauthorized", "Unauthorized")
              /\ UNCHANGED <<pc, local>>
         ELSE IF ~verifyPresented(FindUniqueById(g.sub), g.refreshToken)
         THEN /\ resp' = refreshDenied
              /\ UNCHANGED <<pc, local>>
         ELSE /\ pc' = [pc EXCEPT ![p] = "tokens"]
              /\ local' = [local EXCEPT ![p] =
                   [NoLocal EXCEPT !.op = "refresh", !.uid = g.sub,
                                   !.email = users[g.sub].email,
                                   !.verified = body, !.compared = g.refreshToken,
                                   !.afterLogout = loggedOut[g.sub]]]
              /\ UNCHANGED resp
  /\ UNCHANGED <<users, roles, ctx, now, issued, lastRotated, loggedOut>>

\* POST /auth/logout: JwtAuthGuard, then authService.logout(user.id)
Logout(p, bearer) ==
  /\ pc[p] = "idle"
  /\ LET user == JwtStrategy(bearer, now)
     IN  IF ~user.present
         THEN /\ resp' =
                   Failure("logout", "unauthorized", "Unauthorized")
              /\ UNCHANGED <<users, loggedOut>>
         ELSE IF ~FindUniqueById(user.id).exists
         THEN /\ resp' = Failure("logout", "error", "Record to update not found")
              /\ UNCHANGED <<users, loggedOut>>
         ELSE /\ users' = [users EXCEPT ![user.id].hashedRefreshToken = NullTokenHash]
              /\ loggedOut' = [loggedOut EXCEPT ![user.id] = TRUE]
              /\ resp' =
                   [NoResp EXCEPT !.op = "logout", !.status = "ok", !.uid = user.id,
                                  !.message = "Logged out successfully"]
  /\ UNCHANGED <<roles, ctx, now, pc, local, issued, lastRotated>>

\* a request to a guarded route carrying `bearer` in its authorization header
Access(bearer, route) ==
  /\ LET user == JwtStrategy(bearer, now)
         g == CombinedAuthGuard_canActivate(user, Routes[route].roles,
                                            Routes[route].permissions)
     IN  resp' = [NoResp EXCEPT !.op = "access", !.status = GuardStatus(g.result),
                                !.route = route, !.user = user,
                                !.tokens = [NoPair EXCEPT !.accessToken = bearer],
                                !.evaluated = g.evaluated]
  /\ UNCHANGED <<users, roles, ctx, now, pc, local, issued, lastRotated, loggedOut>>

\* UsersService.remove(id): soft delete, isActive := false
Remove(u) ==
  /\ users[u].exists
  /\ users[u].isActive
  /\ users' = [users EXCEPT ![u].isActive = FALSE]
  /\ UNCHANGED <<roles, ctx, now, pc, local, resp, issued, lastRotated, loggedOut>>

\* a second passes
Tick ==
  /\ now < MaxTime
  /\ now' = now + 1
  /\ UNCHANGED <<users, roles, ctx, pc, local, resp, issued, lastRotated, loggedOut>>

\* the steps of the handlers of register, login, refresh and logout in slot p
Handler(p) ==
  \/ \E e \in Emails, pw \in Passwords : LoginStart(p, e, pw)
  \/ LoginUpdateLastLogin(p)
  \/ GenerateTokensStep(p)
  \/ UpdateRefreshTokenStep(p)
  \/ \E s \in Salts : RegisterCreate(p, "a@clinic", "pw1", "r_doctor", s)
  \/ \E body \in Presentable, header \in Presentable : RefreshStart(p, body, header)
  \/ \E bearer \in Presentable : Logout(p, bearer)

\* Requests in all slots, interleaved at their awaited store operations
Next ==
  \/ \E p \in Procs : Handler(p)
  \/ \E u \in UserIds : Remove(u)
  \/ Tick

Spec == Init /\ [][Next]_vars

\* the same handlers for clients that send the refresh token they present in
\* the body and in the Authorization header alike
SessionHandler(p) ==
  \/ \E e \in Emails, pw \in Passwords : LoginStart(p, e, pw)
  \/ LoginUpdateLastLogin(p)
  \/ GenerateTokensStep(p)
  \/ UpdateRefreshTokenStep(p)
  \/ \E s \in Salts : RegisterCreate(p, "a@clinic", "pw1", "r_doctor", s)
  \/ \E t \in Presentable : RefreshStart(p, t, t)
  \/ \E bearer \in Presentable : Logout(p, bearer)

NextSession ==
  \/ \E p \in Procs : SessionHandler(p)
  \/ \E u \in UserIds : Remove(u)
  \/ Tick

SpecSession == Init /\ [][NextSession]_vars

\* generateTokens when jwtService.signAsync rejects (sign options the library
\* refuses, such as an expiresIn that is no timespan): the exception is not
\* caught and the request ends in a 500
GenerateTokensThrows(p) ==
  /\ pc[p] = "tokens"
  /\ resp' = [Failure(local[p].op, "error", "Internal server error")
                EXCEPT !.email = local[p].email, !.uid = local[p].uid]
  /\ local' = [local EXCEPT ![p] = NoLocal]
  /\ pc' = [pc EXCEPT ![p] = "idle"]
  /\ UNCHANGED <<users, roles, ctx, now, issued, lastRotated, loggedOut>>

\* register and login in a deployment whose sign options are rejected
MisconfiguredHandler(p) ==
  \/ \E e \in Emails, pw \in Passwords : LoginStart(p, e, pw)
  \/ LoginUpdateLastLogin(p)
  \/ GenerateTokensThrows(p)
  \/ \E s \in Salts : RegisterCreate(p, "a@clinic", "pw1", "r_doctor", s)

NextMisconfigured ==
  \/ \E p \in Procs : MisconfiguredHandler(p)
  \/ \E u \in UserIds : Remove(u)
  \/ Tick

SpecMisconfigured == Init /\ [][NextMisconfigured]_vars

\* AuthService.changePassword up to hash(newPassword): findByEmail, then
\* verify(user.password, oldPassword); hashedPassword is the encoded hash
ChangePasswordVerify(p, email, oldPassword, newPassword) ==
  /\ pc[p] = "idle"
  /\ LET f == findByEmail(email)
     IN  \E throws \in (IF f.found THEN Argon2VerifyThrows(users[f.uid].password)
                        ELSE {FALSE}) :
           IF throws
           THEN /\ resp' = [Failure("changePassword", "error", "Internal server error")
                              EXCEPT !.email = email]
                /\ UNCHANGED <<pc, local>>
           ELSE IF ~f.found
           THEN /\ resp' = [Failure("changePassword", "notfound", "User not found")
                              EXCEPT !.email = email]
                /\ UNCHANGED <<pc, local>>
           ELSE IF ~Argon2Verify(users[f.uid].password, oldPassword)
           THEN /\ resp' = [Failure("changePassword", "unauthorized",
                                    "Invalid credentials") EXCEPT !.email = email]
                /\ UNCHANGED <<pc, local>>
           ELSE /\ pc' = [pc EXCEPT ![p] = "password_update"]
                /\ local' = [local EXCEPT ![p] =
                     [op |-> "changePassword", uid |-> f.uid, email |-> email,
                      oldPassword |-> oldPassword, newPassword |-> newPassword,
                      hashedPassword |-> Argon2Encoded(newPassword)]]
                /\ UNCHANGED resp
  /\ UNCHANGED <<users, roles, ctx, now, issued, lastRotated, loggedOut>>

\* changePassword: usersService.update(user.id, { password: hashedPassword }).
\* UsersService.update hashes the password it is given (hash(password)) and
\* stores that
ChangePasswordUpdate(p) ==
  /\ pc[p] = "password_update"
  /\ \E salt \in Salts :
       users' = [users EXCEPT ![local[p].uid].password =
                   Argon2Hash(local[p].hashedPassword, salt)]
  /\ resp' = [op |-> "changePassword", status |-> "ok",
              message |-> "Password changed successfully",
              email |-> local[p].email, uid |-> local[p].uid,
              oldPassword |-> local[p].oldPassword,
              newPassword |-> local[p].newPassword]
  /\ local' = [local EXCEPT ![p] = NoLocal]
  /\ pc' = [pc EXCEPT ![p] = "idle"]
  /\ UNCHANGED <<roles, ctx, now, issued, lastRotated, loggedOut>>

\* login and changePassword
PasswordHandler(p) ==
  \/ \E e \in Emails, pw \in Passwords : LoginStart(p, e, pw)
  \/ LoginUpdateLastLogin(p)
  \/ GenerateTokensStep(p)
  \/ UpdateRefreshTokenStep(p)
  \/ \E e \in Emails, oldPassword \in Passwords, newPassword \in Passwords :
       ChangePasswordVerify(p, e, oldPassword, newPassword)
  \/ ChangePasswordUpdate(p)

NextPassword ==
  \/ \E p \in Procs : PasswordHandler(p)
  \/ \E u \in UserIds : Remove(u)
  \/ Tick

SpecPassword == Init /\ [][NextPassword]_vars

\* One request at a time, and requests to guarded routes.  What a guarded
\* route answers depends on the bearer token, the clock and the route only.
NextAccess ==
  \/ Handler("p1")
  \/ \E bearer \in Presentable, route \in DOMAIN Routes : Access(bearer, route)
  \/ \E u \in UserIds : Remove(u)
  \/ Tick

SpecAccess == Init /\ [][NextAccess]_vars

(* ------------------------ the guards on their own ---------------------- *)

RoleNameValues == {"admin", "doctor", "Doctor", Undefined}

PermissionLists ==
  {<<>>, <<"view_patients", "create_medical_records">>, <<"manage_roles">>}

\* the shapes of request.user the guards distinguish
GuardUsers ==
  {NoUser} \cup
  {u \in [present : {TRUE}, id : {"u1"}, email : {"a@clinic"},
          roleKind : {"undefined", "string", "object"}, roleName : RoleNameValues,
          permsKind : {"undefined", "array", "other"}, permissions : PermissionLists,
          rolePermsKind : {"undefined", "array"},
          rolePerms : PermissionLists \cup {<<"view_patients", NoPermission>>}] :
     /\ u.roleKind = "undefined" => u.roleName = Undefined
     /\ u.roleKind = "string" => u.roleName # Undefined
     /\ u.roleKind # "object" => u.rolePermsKind = "undefined"
     /\ u.rolePermsKind = "undefined" => u.rolePerms = <<>>
     /\ u.permsKind # "array" => u.permissions = <<>>}

RequiredRoles == {NoMeta, Meta(<<>>), Meta(<<"admin">>), Meta(<<"admin", "doctor">>)}

RequiredPermissions ==
  {NoMeta, Meta(<<>>), Meta(<<"create_medical_records">>),
   Meta(<<"manage_roles", "view_patients">>)}

InitGuard ==
  /\ users = [u \in UserIds |-> NoUserRow]
  /\ roles = [r \in RoleIds |-> [name |-> "admin", isActive |-> TRUE, permissions |-> <<>>]]
  /\ now = 0
  /\ pc = [p \in Procs |-> "idle"]
  /\ local = [p \in Procs |-> NoLocal]
  /\ resp = NoResp
  /\ issued = {}
  /\ lastRotated = [u \in UserIds |-> NoToken]
  /\ loggedOut = [u \in UserIds |-> FALSE]
  /\ ctx \in [user : GuardUsers, roles : RequiredRoles, permissions : RequiredPermissions]

GuardAnswer(guard, result, evaluated) ==
  [NoResp EXCEPT !.op = guard, !.status = result, !.evaluated = evaluated]

EvalRolesGuard ==
  /\ resp' = GuardAnswer("RolesGuard",
                IF RolesGuard_canActivate(ctx.roles, ctx.user) THEN "true" ELSE "false",
                <<"roles">>)
  /\ UNCHANGED <<users, roles, ctx, now, pc, local, issued, lastRotated, loggedOut>>

EvalPermissionsGuard ==
  /\ resp' = GuardAnswer("PermissionsGuard",
                PermissionsGuard_canActivate(ctx.permissions, ctx.user), <<"permissions">>)
  /\ UNCHANGED <<users, roles, ctx, now, pc, local, issued, lastRotated, loggedOut>>

EvalPermissionsGuardJwt ==
  /\ resp' = GuardAnswer("PermissionsGuardJwt",
                PermissionsGuardJwt_canActivate(ctx.permissions, ctx.user),
                <<"permissions">>)
  /\ UNCHANGED <<users, roles, ctx, now, pc, local, issued, lastRotated, loggedOut>>

EvalCombinedAuthGuard ==
  /\ LET g == CombinedAuthGuard_canActivate(ctx.user, ctx.roles, ctx.permissions)
     IN  resp' = GuardAnswer("CombinedAuthGuard", g.result, g.evaluated)
  /\ UNCHANGED <<users, roles, ctx, now, pc, local, issued, lastRotated, loggedOut>>

NextGuard ==
  \/ EvalRolesGuard
  \/ EvalPermissionsGuard
  \/ EvalPermissionsGuardJwt
  \/ EvalCombinedAuthGuard

SpecGuard == InitGuard /\ [][NextGuard]_vars

(* ------------------- roles and their permission sets ------------------- *)

\* permission ids a request can name; "p_missing" has no row in permissions
PermissionIds == {"view_patients", "create_medical_records", "manage_roles", "p_missing"}

ExistingPermissions == PermissionIds \ {"p_missing"}

\* what a request to replace a role's permissions can carry as permissionIds
PermissionIdLists ==
  {<<"manage_roles">>, <<"view_patients", "manage_roles">>, <<"p_missing">>, <<>>}

\* the steps of a request between BEGIN and COMMIT of its transaction
TxSteps == {"tx_delete", "tx_create", "tx_commit"}

\* slots whose open transaction has written rolePermission rows of role id
OpenTransactions(id) == {p \in Procs : pc[p] \in TxSteps /\ local[p].roleId = id}

\* a transaction whose writes other connections read before it commits
transactionReadUncommitted(committed, working) == working

\* prisma.$transaction: until COMMIT other connections read the committed rows
transaction(committed, working) == committed

\* the rolePermission rows of role id as a query outside the transactions reads them
ReadRolePermissions(id) ==
  IF OpenTransactions(id) = {} THEN roles[id].permissions
  ELSE transaction(roles[id].permissions,
                   local[CHOOSE p \in OpenTransactions(id) : TRUE].txPermissions)

\* locals of a replacement: old is the committed set when it began, new the
\* set it is to leave (the old one when updateData carries no permissionIds)
RoleLocal(op, id, hasPermissionIds, permissionIds) ==
  [op |-> op, roleId |-> id, permissionIds |-> permissionIds,
   old |-> roles[id].permissions,
   new |-> IF hasPermissionIds THEN permissionIds ELSE roles[id].permissions,
   txPermissions |-> roles[id].permissions,
   oldName |-> roles[id].name, txName |-> roles[id].name]

\* the basic data of updateData: nothing, or a new name
NoRoleData == [hasName |-> FALSE, name |-> Undefined]

RoleData(name) == [hasName |-> TRUE, name |-> name]

\* the join rows are unique per (roleId, permissionId) pair
RolePermissionUnique(ids) ==
  \A i, j \in 1..Len(ids) : ids[i] = ids[j] => i = j

\* role names are unique: another role already has the name
RoleNameTaken(id, roleData) ==
  /\ roleData.hasName
  /\ \E r \in DOMAIN roles : r # id /\ roles[r].name = roleData.name

\* a transaction that keeps what it wrote when it fails
transactionRollbackKeepsWrites(committed, working) == working

\* prisma.$transaction: when a statement in it throws, its writes are discarded
transactionRollback(committed, working) == committed

\* the roles after the transaction of slot p has failed
RolledBack(p) ==
  [roles EXCEPT ![local[p].roleId] =
     transactionRollback(@, [@ EXCEPT !.permissions = local[p].txPermissions,
                                      !.name = local[p].txName])]

\* RolesService.updateRole up to the role.update inside the transaction, which
\* locks the role's row: a second replacement of the same role waits for COMMIT.
\* hasPermissionIds is FALSE when updateData carries no permissionIds; roleData
\* is the rest of updateData, and a name another role has fails the update
UpdateRoleBegin(p, id, roleData, hasPermissionIds, permissionIds) ==
  /\ pc[p] = "idle"
  /\ IF id \notin DOMAIN roles
     THEN /\ resp' = Failure("updateRole", "notfound", "Role not found")
          /\ UNCHANGED <<pc, local>>
     ELSE /\ OpenTransactions(id) = {}
          /\ IF RoleNameTaken(id, roleData)
             THEN /\ resp' = Failure("updateRole", "error",
                                     "Unique constraint failed on the fields: (name)")
                  /\ UNCHANGED <<pc, local>>
             ELSE /\ local' = [local EXCEPT ![p] =
                       [RoleLocal("updateRole", id, hasPermissionIds, permissionIds)
                          EXCEPT !.txName = IF roleData.hasName THEN roleData.name ELSE @]]
                  /\ pc' = [pc EXCEPT ![p] =
                       IF hasPermissionIds THEN "tx_delete" ELSE "tx_commit"]
                  /\ UNCHANGED resp
  /\ UNCHANGED <<users, roles, ctx, now, issued, lastRotated, loggedOut>>

\* RolesService.assignPermissionsToRole up to BEGIN of its transaction
AssignPermissionsBegin(p, id, permissionIds) ==
  /\ pc[p] = "idle"
  /\ IF id \notin DOMAIN roles
     THEN /\ resp' = Failure("assignPermissionsToRole", "notfound", "Role not found")
          /\ UNCHANGED <<pc, local>>
     ELSE IF Cardinality({permissionIds[i] : i \in 1..Len(permissionIds)}
                           \cap ExistingPermissions) # Len(permissionIds)
     THEN /\ resp' = Failure("assignPermissionsToRole", "notfound",
                             "One or more permissions not found")
          /\ UNCHANGED <<pc, local>>
     ELSE /\ OpenTransactions(id) = {}
          /\ local' = [local EXCEPT ![p] =
                         RoleLocal("assignPermissionsToRole", id, TRUE, permissionIds)]
          /\ pc' = [pc EXCEPT ![p] = "tx_delete"]
          /\ UNCHANGED resp
  /\ UNCHANGED <<users, roles, ctx, now, issued, lastRotated, loggedOut>>

\* rolePermission.deleteMany({ where: { roleId } }) inside the transaction
TxDeleteMany(p) ==
  /\ pc[p] = "tx_delete"
  /\ local' = [local EXCEPT ![p].txPermissions = <<>>]
  /\ pc' = [pc EXCEPT ![p] = "tx_create"]
  /\ UNCHANGED <<users, roles, ctx, now, resp, issued, lastRotated, loggedOut>>

\* rolePermission.createMany inside the transaction; a permissionId without a
\* row violates the foreign key, a permissionId named twice the uniqueness of
\* the pair, and the transaction is rolled back
TxCreateMany(p) ==
  /\ pc[p] = "tx_create"
  /\ LET ids == local[p].permissionIds
     IN  IF \E i \in 1..Len(ids) : ids[i] \notin ExistingPermissions
         THEN /\ resp' = Failure(local[p].op, "error", "Foreign key constraint failed")
              /\ pc' = [pc EXCEPT ![p] = "idle"]
              /\ roles' = RolledBack(p)
              /\ local' = [local EXCEPT ![p] = NoLocal]
         ELSE IF ~RolePermissionUnique(ids)
         THEN /\ resp' = Failure(local[p].op, "error", "Unique constraint failed")
              /\ pc' = [pc EXCEPT ![p] = "idle"]
              /\ roles' = RolledBack(p)
              /\ local' = [local EXCEPT ![p] = NoLocal]
         ELSE /\ local' = [local EXCEPT ![p].txPermissions = ids]
              /\ pc' = [pc EXCEPT ![p] = "tx_commit"]
              /\ UNCHANGED <<resp, roles>>
  /\ UNCHANGED <<users, ctx, now, issued, lastRotated, loggedOut>>

\* rolePermission.createMany rejected by the database for any other reason
TxInsertError(p) ==
  /\ pc[p] = "tx_create"
  /\ resp' = Failure(local[p].op, "error", "Insert failed")
  /\ pc' = [pc EXCEPT ![p] = "idle"]
  /\ roles' = RolledBack(p)
  /\ local' = [local EXCEPT ![p] = NoLocal]
  /\ UNCHANGED <<users, ctx, now, issued, lastRotated, loggedOut>>

\* COMMIT: the rows written in the transaction replace the committed ones
TxCommit(p) ==
  /\ pc[p] = "tx_commit"
  /\ roles' = [roles EXCEPT ![local[p].roleId].permissions = local[p].txPermissions,
                             ![local[p].roleId].name = local[p].txName]
  /\ resp' = [op |-> local[p].op, status |-> "ok", roleId |-> local[p].roleId,
              permissions |-> local[p].txPermissions, during |-> {}]
  /\ pc' = [pc EXCEPT ![p] = "idle"]
  /\ local' = [local EXCEPT ![p] = NoLocal]
  /\ UNCHANGED <<users, ctx, now, issued, lastRotated, loggedOut>>

\* RolesService.findRoleById: `during` lists the replacements of the role that
\* are in flight when the rows are read
FindRoleById(id) ==
  /\ IF id \notin DOMAIN roles
     THEN resp' = Failure("findRoleById", "notfound", "Role not found")
     ELSE resp' = [op |-> "findRoleById", status |-> "ok", roleId |-> id,
                   permissions |-> ReadRolePermissions(id),
                   during |-> {[old |-> local[p].old, new |-> local[p].new,
                                step |-> pc[p]] : p \in OpenTransactions(id)}]
  /\ UNCHANGED <<users, roles, ctx, now, pc, local, issued, lastRotated, loggedOut>>

RoleHandler(p) ==
  \/ \E id \in RoleIds \cup {"r_missing"}, has \in BOOLEAN, ids \in PermissionIdLists :
       UpdateRoleBegin(p, id, NoRoleData, has, ids)
  \/ \E id \in RoleIds \cup {"r_missing"}, ids \in PermissionIdLists :
       AssignPermissionsBegin(p, id, ids)
  \/ TxDeleteMany(p)
  \/ TxCreateMany(p)
  \/ TxCommit(p)

\* role administration in all slots, and reads of a role between their steps
NextRoles ==
  \/ \E p \in Procs : RoleHandler(p)
  \/ \E id \in RoleIds \cup {"r_missing"} : FindRoleById(id)

SpecRoles == Init /\ [][NextRoles]_vars

\* permissionIds that make a replacement fail: an id without a row, an id
\* named twice; and two that succeed
FailingPermissionIdLists ==
  {<<"manage_roles">>, <<"p_missing">>, <<"view_patients", "p_missing">>,
   <<"manage_roles", "manage_roles">>, <<>>}

RoleFailureHandler(p) ==
  \/ \E id \in RoleIds \cup {"r_missing"},
        roleData \in {NoRoleData, RoleData("physician"), RoleData("admin")},
        has \in BOOLEAN, ids \in FailingPermissionIdLists :
       UpdateRoleBegin(p, id, roleData, has, ids)
  \/ \E id \in RoleIds \cup {"r_missing"}, ids \in FailingPermissionIdLists :
       AssignPermissionsBegin(p, id, ids)
  \/ TxDeleteMany(p)
  \/ TxCreateMany(p)
  \/ TxInsertError(p)
  \/ TxCommit(p)

\* role administration with requests that fail, one request at a time, and
\* reads of a role between their steps
NextRoleFailure ==
  \/ RoleFailureHandler("p1")
  \/ \E id \in RoleIds : FindRoleById(id)

SpecRoleFailure == Init /\ [][NextRoleFailure]_vars

(* ------------- guarded routes while the store changes ------------------ *)

\* UsersService.update(id, { roleId }): the role must exist and be active
UsersUpdate(u, roleId) ==
  /\ users[u].exists
  /\ roleId \in DOMAIN roles
  /\ roles[roleId].isActive
  /\ users[u].roleId # roleId
  /\ users' = [users EXCEPT ![u].roleId = roleId]
  /\ UNCHANGED <<roles, ctx, now, pc, local, resp, issued, lastRotated, loggedOut>>

\* the requests of a client that holds the credentials of a@clinic: register,
\* login and logout
TrustHandler(p) ==
  \/ LoginStart(p, "a@clinic", "pw1")
  \/ LoginUpdateLastLogin(p)
  \/ GenerateTokensStep(p)
  \/ UpdateRefreshTokenStep(p)
  \/ \E s \in Salts : RegisterCreate(p, "a@clinic", "pw1", "r_doctor", s)
  \/ \E bearer \in Presentable : Logout(p, bearer)

\* One request at a time: the auth handlers, requests to guarded routes, and
\* the administration that changes what the store says about an identity
\* (deactivation, another role, another permission set of the doctor role).
NextTrust ==
  \/ TrustHandler("p1")
  \/ \E bearer \in Presentable, route \in DOMAIN Routes : Access(bearer, route)
  \/ \E u \in UserIds : Remove(u)
  \/ \E u \in UserIds, r \in RoleIds : UsersUpdate(u, r)
  \/ AssignPermissionsBegin("p1", "r_doctor", <<"manage_roles">>)
  \/ TxDeleteMany("p1")
  \/ TxCreateMany("p1")
  \/ TxCommit("p1")
  \/ Tick

SpecTrust == Init /\ [][NextTrust]_vars

(* ----------------------- tokens that outlive their expiry --------------- *)

\* time passes until every token issued up to MaxTime has expired
TickLate ==
  /\ now < MaxTime + RefreshExpiresIn
  /\ now' = now + 1
  /\ UNCHANGED <<users, roles, ctx, pc, local, resp, issued, lastRotated, loggedOut>>

\* One client with the credentials of a@clinic: register, login, refresh with
\* a token it was issued, GET /auth/profile with a token it was issued.
NextExpiry ==
  \/ LoginStart("p1", "a@clinic", "pw1")
  \/ LoginUpdateLastLogin("p1")
  \/ GenerateTokensStep("p1")
  \/ UpdateRefreshTokenStep("p1")
  \/ \E s \in Salts : RegisterCreate("p1", "a@clinic", "pw1", "r_doctor", s)
  \/ \E t \in IssuedTokens : RefreshStart("p1", t, t)
  \/ \E t \in IssuedTokens : Access(t, "profile")
  \/ TickLate

SpecExpiry == Init /\ [][NextExpiry]_vars

(* ------------------- stored hashes that are malformed ------------------- *)

\* the token pair u1 was issued at time 0
FirstPair == generateTokens("u1", "a@clinic", 0)

\* u1 holds the token pair issued at time 0; its stored password hash, its
\* stored refresh-token hash, both or neither are malformed values
InitMalformed ==
  /\ \E password \in {Argon2Hash("pw1", "s1"), MalformedPasswordHash},
        token \in {Argon2Hash(FirstPair.refreshToken, "s1"), MalformedTokenHash} :
       users = [u \in UserIds |->
                  [NewUserRow("a@clinic", password, "r_doctor")
                     EXCEPT !.hashedRefreshToken = token]]
  /\ roles = [r \in RoleIds |->
                IF r = "r_admin"
                THEN [name |-> "admin", isActive |-> TRUE,
                      permissions |-> <<"manage_roles", "view_patients">>]
                ELSE [name |-> "doctor", isActive |-> TRUE,
                      permissions |-> <<"view_patients", "create_medical_records">>]]
  /\ now = 0
  /\ pc = [p \in Procs |-> "idle"]
  /\ local = [p \in Procs |-> NoLocal]
  /\ resp = NoResp
  /\ issued = {FirstPair}
  /\ lastRotated = [u \in UserIds |-> FirstPair.refreshToken]
  /\ loggedOut = [u \in UserIds |-> FALSE]
  /\ ctx = NoCtx

\* one request at a time against that store
NextMalformed ==
  \/ Handler("p1")
  \/ Tick

SpecMalformed == InitMalformed /\ [][NextMalformed]_vars

(* ------------- deleting a role while identities are assigned ------------ *)

\* role._count.users: the users whose roleId is id, inactive ones included
CountUsers(id) == Cardinality({u \in UserIds : users[u].exists /\ users[u].roleId = id})

\* prisma.role.findFirst({ where: { id, isActive: true } }) finds a row
ActiveRole(id) == id \in DOMAIN roles /\ roles[id].isActive

\* RolesService.deleteRole up to its checks: findUnique with the user count
DeleteRoleCheck(p, id) ==
  /\ pc[p] = "idle"
  /\ IF id \notin DOMAIN roles
     THEN /\ resp' = Failure("deleteRole", "notfound", "Role not found")
          /\ UNCHANGED <<pc, local>>
     ELSE IF CountUsers(id) > 0
     THEN /\ resp' = Failure("deleteRole", "conflict",
                             "Cannot delete role with assigned users")
          /\ UNCHANGED <<pc, local>>
     ELSE /\ pc' = [pc EXCEPT ![p] = "role_deactivate"]
          /\ local' = [local EXCEPT ![p] = [op |-> "deleteRole", roleId |-> id]]
          /\ UNCHANGED resp
  /\ UNCHANGED <<users, roles, ctx, now, issued, lastRotated, loggedOut>>

\* RolesService.deleteRole: prisma.role.update({ data: { isActive: false } })
DeleteRoleUpdate(p) ==
  /\ pc[p] = "role_deactivate"
  /\ roles' = [roles EXCEPT ![local[p].roleId].isActive = FALSE]
  /\ resp' = [NoResp EXCEPT !.op = "deleteRole", !.status = "ok"]
  /\ pc' = [pc EXCEPT ![p] = "idle"]
  /\ local' = [local EXCEPT ![p] = NoLocal]
  /\ UNCHANGED <<users, ctx, now, issued, lastRotated, loggedOut>>

\* UsersService.create up to the hash of the password: the email must be
\* free and the role must exist and be active
CreateVerify(p, email, password, roleId) ==
  /\ pc[p] = "idle"
  /\ IF FindUniqueByEmail(email) # {}
     THEN /\ resp' = Failure("create", "conflict", "User with this email already exists")
          /\ UNCHANGED <<pc, local>>
     ELSE IF ~ActiveRole(roleId)
     THEN /\ resp' = Failure("create", "badrequest", "Invalid or inactive role")
          /\ UNCHANGED <<pc, local>>
     ELSE /\ pc' = [pc EXCEPT ![p] = "user_create"]
          /\ local' = [local EXCEPT ![p] =
                         [op |-> "create", email |-> email, password |-> password,
                          roleId |-> roleId]]
          /\ UNCHANGED resp
  /\ UNCHANGED <<users, roles, ctx, now, issued, lastRotated, loggedOut>>

\* UsersService.create: prisma.user.create; the unique index on email rejects
\* a second row of the same email
CreateInsert(p) ==
  /\ pc[p] = "user_create"
  /\ IF FindUniqueByEmail(local[p].email) # {} \/ \A id \in UserIds : users[id].exists
     THEN /\ resp' = Failure("create", "error", "Unique constraint failed")
          /\ UNCHANGED users
     ELSE /\ \E id \in UserIds, salt \in Salts :
               /\ ~users[id].exists
               /\ users' = [users EXCEPT ![id] =
                    NewUserRow(local[p].email, Argon2Hash(local[p].password, salt),
                               local[p].roleId)]
          /\ resp' = [NoResp EXCEPT !.op = "create", !.status = "ok",
                                     !.email = local[p].email]
  /\ pc' = [pc EXCEPT ![p] = "idle"]
  /\ local' = [local EXCEPT ![p] = NoLocal]
  /\ UNCHANGED <<roles, ctx, now, issued, lastRotated, loggedOut>>

\* UsersService.update(id, { roleId }) up to its checks
ReassignVerify(p, u, roleId) ==
  /\ pc[p] = "idle"
  /\ IF ~FindUniqueById(u).exists
     THEN /\ resp' = Failure("update", "notfound", "User not found")
          /\ UNCHANGED <<pc, local>>
     ELSE IF ~ActiveRole(roleId)
     THEN /\ resp' = Failure("update", "badrequest", "Invalid or inactive role")
          /\ UNCHANGED <<pc, local>>
     ELSE /\ pc' = [pc EXCEPT ![p] = "user_update"]
          /\ local' = [local EXCEPT ![p] = [op |-> "update", uid |-> u, roleId |-> roleId]]
          /\ UNCHANGED resp
  /\ UNCHANGED <<users, roles, ctx, now, issued, lastRotated, loggedOut>>

\* UsersService.update: prisma.user.update({ data: { roleId } })
ReassignWrite(p) ==
  /\ pc[p] = "user_update"
  /\ users' = [users EXCEPT ![local[p].uid].roleId = local[p].roleId]
  /\ resp' = [NoResp EXCEPT !.op = "update", !.status = "ok", !.uid = local[p].uid]
  /\ pc' = [pc EXCEPT ![p] = "idle"]
  /\ local' = [local EXCEPT ![p] = NoLocal]
  /\ UNCHANGED <<roles, ctx, now, issued, lastRotated, loggedOut>>

RoleDeleteHandler(p) ==
  \/ \E id \in RoleIds \cup {"r_missing"} : DeleteRoleCheck(p, id)
  \/ DeleteRoleUpdate(p)
  \/ \E email \in Emails, id \in RoleIds \cup {"r_missing"} :
       CreateVerify(p, email, "pw1", id)
  \/ CreateInsert(p)
  \/ \E u \in UserIds, id \in RoleIds : ReassignVerify(p, u, id)
  \/ ReassignWrite(p)

\* role deletion, user creation and role reassignment in all slots
NextRoleDelete ==
  \/ \E p \in Procs : RoleDeleteHandler(p)
  \/ \E u \in UserIds : Remove(u)

SpecRoleDelete == Init /\ [][NextRoleDelete]_vars

(* ------------------------------ claims --------------------------------- *)

IssuedRefreshTokens == {pair.refreshToken : pair \in issued}

\* the tokens a client can present that verify against u's stored hash
Verifying(u) == {t \in Presentable : verifyPresented(users[u], t)}

\* C1: single active session.  Whatever register, login, refresh and logout
\* requests have run, at most one presentable token verifies against the
\* identity's stored refresh-token hash; if a hash is stored, the one that
\* verifies is the token of the most recent rotation, and every other issued
\* token (any tokenA rotated before it) does not verify.
C1_SingleActiveSession ==
  \A u \in UserIds :
    /\ Cardinality(Verifying(u)) <= 1
    /\ Verifying(u) \subseteq {lastRotated[u]}
    /\ (users[u].exists /\ ~users[u].hashedRefreshToken.isNull)
         => verifyPresented(users[u], lastRotated[u])

\* two different refresh tokens have been issued to u; the last rotated one
\* verifies and the earlier one does not
C1_Witness ==
  \E u \in UserIds :
    /\ Cardinality(IssuedRefreshTokens) >= 2
    /\ lastRotated[u] \in IssuedRefreshTokens
    /\ Verifying(u) = {lastRotated[u]}
    /\ \E t \in IssuedRefreshTokens : t # lastRotated[u] /\ ~verifyPresented(users[u], t)

\* C2: after logout(id) has completed, every refresh attempt that starts
\* afterwards is rejected, until a login or register stores a new hash: no
\* refresh that started after a logout (with no login or register hash write in
\* between) gets past the stored-hash check.
C2_RefreshRejectedAfterLogout ==
  \A p \in Procs : local[p].op = "refresh" => ~local[p].afterLogout

\* the payload of `token` carries u's id, handle, role name and permission names
ClaimsMatchStore(token, u) ==
  /\ Get(token.payload, "sub") = u
  /\ Get(token.payload, "email") = users[u].email
  /\ Get(token.payload, "role") = StoredRoleName(u)
  /\ Has(token.payload, "permissions")
  /\ token.payload.permissions = StoredPermissions(u)

\* C3: the payload signed into every access and refresh token that login,
\* refresh or register issues holds the identity's id, handle, role name and
\* flattened permission-name list as the store has them.
C3_ClaimsFromStore ==
  \A p \in Procs :
    pc[p] = "rotate" =>
      /\ ClaimsMatchStore(local[p].tokens.accessToken, local[p].uid)
      /\ ClaimsMatchStore(local[p].tokens.refreshToken, local[p].uid)

\* the guarded request that finished last carried an access token issued to a
\* doctor with permissions [view_patients, create_medical_records], unexpired
DoctorAccess ==
  /\ resp.op = "access"
  /\ resp.user.present
  /\ \E pair \in issued : pair.accessToken = resp.tokens.accessToken
  /\ FindUniqueById(resp.user.id).exists
  /\ StoredRoleName(resp.user.id) = "doctor"
  /\ StoredPermissions(resp.user.id) = <<"view_patients", "create_medical_records">>

\* C4: end to end, a doctor with permissions [view_patients,
\* create_medical_records] is allowed on the route whose required roles include
\* admin and doctor and whose required permissions are {create_medical_records},
\* and denied on the route requiring permissions {manage_roles}.
C4_DoctorEndToEnd ==
  DoctorAccess =>
    /\ resp.route = "medicalRecordsCreate" => resp.status = "ok"
    /\ resp.route = "rolesManage" => resp.status = "forbidden"

\* the single role name of the identity context
RoleNameOf(user) == IF user.roleKind \in {"string", "object"} THEN user.roleName ELSE Undefined

\* the flattened permission-name list of the identity context
FlattenedPermissions(user) ==
  IF user.permsKind = "array" THEN user.permissions
  ELSE IF user.rolePermsKind = "array" THEN user.rolePerms
  ELSE <<>>

Elements(arr) == {arr[i] : i \in 1..Len(arr)}

\* C5: role check.  For an authenticated identity an empty required-role set,
\* a route declared with an empty role list included, allows; a non-empty set
\* allows iff the identity's role name is, by exact match, a member; a missing
\* identity is denied whenever the set is non-empty.
C5_RoleCheck ==
  resp.op = "RolesGuard" =>
    LET allowed == resp.status = "true"
        required == Elements(ctx.roles.items)
    IN  /\ (ctx.user.present /\ required = {}) => allowed
        /\ (ctx.user.present /\ required # {})
             => (allowed <=> RoleNameOf(ctx.user) \in required)
        /\ (~ctx.user.present /\ required # {}) => ~allowed

\* C6: permission check.  It allows iff the required-permission set is empty,
\* a route declared with an empty permission list included, or the identity's
\* flattened permission-name list shares a name with the required set.
C6_PermissionCheck ==
  resp.op \in {"PermissionsGuard", "PermissionsGuardJwt"} =>
    LET allowed == resp.status = "true"
        required == Elements(ctx.permissions.items)
    IN  allowed <=>
          \/ required = {}
          \/ Elements(FlattenedPermissions(ctx.user)) \cap required # {}

\* position of guard g in the sequence of guards evaluated, 0 if it did not run
Position(evaluated, g) ==
  IF \E i \in 1..Len(evaluated) : evaluated[i] = g
  THEN CHOOSE i \in 1..Len(evaluated) : evaluated[i] = g
  ELSE 0

\* C7: the combined guard allows iff authentication, the role check and the
\* permission check all allow; the role check runs before the permission
\* check, and when the role check denies the permission check is not run.
C7_CombinedIsStrictAnd ==
  resp.op = "CombinedAuthGuard" =>
    LET auth == JwtAuthGuard_canActivate(ctx.user) = "true"
        role == RolesGuard_canActivate(ctx.roles, ctx.user)
        perm == PermissionsGuard_canActivate(ctx.permissions, ctx.user) = "true"
    IN  /\ resp.status = "true" <=> (auth /\ role /\ perm)
        /\ Position(resp.evaluated, "permissions") > 0
             => /\ Position(resp.evaluated, "roles") > 0
                /\ Position(resp.evaluated, "roles") < Position(resp.evaluated, "permissions")
        /\ (auth /\ ~role) => Position(resp.evaluated, "permissions") = 0
        /\ (auth /\ role) => Position(resp.evaluated, "permissions") > 0

\* an authenticated request whose role check denied while its permission check
\* alone would have allowed: it is denied and the permission check did not run
C7_Witness ==
  /\ resp.op = "CombinedAuthGuard"
  /\ ctx.user.present
  /\ ~RolesGuard_canActivate(ctx.roles, ctx.user)
  /\ PermissionsGuard_canActivate(ctx.permissions, ctx.user) = "true"
  /\ resp.status = "false"
  /\ resp.evaluated = <<"jwt", "roles">>

\* C8: issue / validate round trip.  When a login has returned and its access
\* token has not expired, validating the token yields an identity context whose
\* id is the id of the identity that logged in and whose email is its handle.
C8_IssueValidateRoundTrip ==
  (resp.op = "login" /\ resp.status = "ok" /\ now < resp.tokens.accessToken.payload.exp)
    => LET user == JwtStrategy(resp.tokens.accessToken, now)
       IN  /\ user.present
           /\ user.id = resp.uid
           /\ user.id \in FindUniqueByEmail(resp.email)
           /\ user.email = resp.email

C8_Witness ==
  /\ resp.op = "login"
  /\ resp.status = "ok"
  /\ now < resp.tokens.accessToken.payload.exp
  /\ JwtStrategy(resp.tokens.accessToken, now).id = "u1"

\* C9: in a refresh that passes, the token whose signature and expiry the
\* refresh validator verified is the token value compared against the stored
\* hash.
C9_VerifiedIsCompared ==
  \A p \in Procs : local[p].op = "refresh" => local[p].verified = local[p].compared

\* C10: a login that is rejected, be it for an unknown handle, an inactive
\* identity or a wrong secret, ends in one and the same outcome.
C10_LoginRejectionsUniform ==
  (resp.op = "login" /\ resp.status # "ok")
    => (resp.status = "unauthorized" /\ resp.message = "Invalid credentials")

C12_LastLoginWriteWins ==
  [][\A p \in Procs :
       (/\ pc[p] = "rotate" /\ pc'[p] = "idle" /\ local[p].op = "login"
        /\ resp.op = "login" /\ resp.status = "ok" /\ resp.uid = local[p].uid)
       => /\ verifyPresented(users'[local[p].uid], local[p].tokens.refreshToken)
          /\ ~verifyPresented(users'[local[p].uid], resp.tokens.refreshToken)]_vars

\* C13: a refresh that is rejected, be it by the refresh validator (bad
\* signature, expiry) or by the stored-hash check (identity gone, hash null,
\* hash mismatch), ends unauthenticated, returns no tokens, and leaves the
\* stored rows and the set of issued tokens as they were.
C13_RefreshRejectionUniform ==
  [][(resp' # resp /\ resp'.op = "refresh" /\ resp'.status # "ok")
       => /\ resp'.status = "unauthorized"
          /\ resp'.tokens = NoPair
          /\ users' = users
          /\ issued' = issued]_vars

\* a correctly signed, unexpired refresh token was denied by the stored-hash
\* check while a hash is stored, and the hash is still stored
C13_Witness ==
  /\ resp.op = "refresh"
  /\ resp = refreshDenied
  /\ \E u \in UserIds : users[u].exists /\ ~users[u].hashedRefreshToken.isNull

\* the guards whose answer Nest turns into the outcome of the request
PolicyGuards == {"RolesGuard", "PermissionsGuard", "PermissionsGuardJwt", "CombinedAuthGuard"}

\* C14: a guard that has an identity context and denies ends the request as
\* forbidden, never as unauthenticated; a role, permission or combined guard
\* that finds no identity context never ends the request as forbidden.
C14_DenialCategories ==
  resp.op \in PolicyGuards =>
    /\ ctx.user.present => GuardStatus(resp.status) # "unauthorized"
    /\ (ctx.user.present /\ resp.status = "false") => GuardStatus(resp.status) = "forbidden"
    /\ ~ctx.user.present => GuardStatus(resp.status) # "forbidden"

\* C15: per-request validator.  A request to a guarded route gets an identity
\* context only from a bearer token that parses, carries the signature of the
\* access secret and is unexpired, and the context is built from that token's
\* claims; on every other bearer value (missing, malformed, badly signed,
\* expired) no identity context is populated, the request ends unauthenticated
\* and the handler does not run.
C15_ValidatorStateMachine ==
  [][(resp' # resp /\ resp'.op = "access")
       => LET token == resp'.tokens.accessToken
              valid == /\ token.fmt = "jwt"
                       /\ token.sig = JwtSecret
                       /\ now < token.payload.exp
          IN  /\ resp'.user.present
                   => /\ valid
                      /\ resp'.user.id = token.payload.sub
                      /\ resp'.user.email = token.payload.email
              /\ ~valid
                   => /\ resp'.user = NoUser
                      /\ resp'.status = "unauthorized"]_vars

\* an access token the server issued was presented at or after its expiry and
\* the request ended unauthenticated with no identity context
C15_Witness ==
  /\ resp.op = "access"
  /\ resp.status = "unauthorized"
  /\ resp.user = NoUser
  /\ \E pair \in issued : pair.accessToken = resp.tokens.accessToken
  /\ resp.tokens.accessToken.payload.exp <= now

\* C16: fail closed.  On a non-empty requirement no guard raises an exception,
\* whatever the identity context; with no request.user every guard denies, the
\* role guard denies a context without a role, and the permission guards deny
\* a context that has no permission list at all.
C16_FailClosed ==
  LET nonEmptyRoles == ctx.roles.kind = "array" /\ ctx.roles.items # <<>>
      nonEmptyPermissions == ctx.permissions.kind = "array" /\ ctx.permissions.items # <<>>
  IN  /\ (resp.op = "RolesGuard" /\ nonEmptyRoles)
           => /\ resp.status \in {"true", "false"}
              /\ (~ctx.user.present \/ ctx.user.roleKind = "undefined")
                   => resp.status = "false"
      /\ (resp.op \in {"PermissionsGuard", "PermissionsGuardJwt"} /\ nonEmptyPermissions)
           => /\ resp.status \in {"true", "false"}
              /\ (\/ ~ctx.user.present
                  \/ ctx.user.permsKind # "array" /\ ctx.user.rolePermsKind # "array")
                   => resp.status = "false"

\* C17: a deactivated identity obtains no new token pair.  Every login and
\* every refresh that gets past its checks, and so goes on to issue tokens,
\* is for an identity whose active flag is set when the request is checked.
C17_DeactivatedGetsNoTokens ==
  [][\A p \in Procs :
       (/\ pc[p] = "idle" /\ pc'[p] \in {"lastLogin", "tokens"}
        /\ local'[p].op \in {"login", "refresh"})
       => users[local'[p].uid].isActive]_vars

\* what a request carrying `bearer` to `route` meets: the identity context the
\* validator builds and the answer of the guards
Outcome(bearer, route) ==
  LET user == JwtStrategy(bearer, now)
  IN  [user |-> user,
       result |-> CombinedAuthGuard_canActivate(user, Routes[route].roles,
                                                Routes[route].permissions).result]

\* C18: trust the token.  No step of the system (a logout, a deactivation, a
\* change of the identity's role or of the role's permissions, a login, a
\* refresh) changes what an issued access token presented before and after it
\* meets, as long as the token has not expired: the identity context built
\* from it and the answer of the guards on every route stay the same.
C18_TrustTheToken ==
  [][\A pair \in issued, route \in DOMAIN Routes :
       now' < pair.accessToken.payload.exp
         => Outcome(pair.accessToken, route)' = Outcome(pair.accessToken, route)]_vars

\* an access token of u1 was accepted on a guarded route after u1 had logged
\* out, had been deactivated and the permissions of its role had been replaced
C18_Witness ==
  /\ resp.op = "access"
  /\ resp.user.present
  /\ resp.user.id = "u1"
  /\ loggedOut["u1"]
  /\ ~users["u1"].isActive
  /\ users["u1"].hashedRefreshToken.isNull
  /\ StoredPermissions("u1") # <<"view_patients", "create_medical_records">>

\* C19: expiry.  An issued access token presented later than its expires-at
\* ends unauthenticated and one presented before it is accepted; the refresh
\* validator rejects an issued refresh token later than its expires-at and
\* accepts it before, and no refresh passes on an expired token.
C19_Expiry ==
  [][/\ \A pair \in issued :
          LET access == pair.accessToken
              refresh == pair.refreshToken
          IN  /\ now > access.payload.exp => ~JwtStrategy(access, now).present
              /\ now < access.payload.exp => JwtStrategy(access, now).present
              /\ now > refresh.payload.exp => ~RefreshStrategy(refresh, refresh, now).ok
              /\ now < refresh.payload.exp => RefreshStrategy(refresh, refresh, now).ok
     /\ (resp' # resp /\ resp'.op = "access"
           /\ \E pair \in issued : pair.accessToken = resp'.tokens.accessToken)
          => /\ now > resp'.tokens.accessToken.payload.exp => resp'.status = "unauthorized"
             /\ now < resp'.tokens.accessToken.payload.exp => resp'.status # "unauthorized"
     /\ (pc["p1"] = "idle" /\ pc'["p1"] = "tokens" /\ local'["p1"].op = "refresh")
          => now < local'["p1"].verified.payload.exp]_vars

\* an access token that expires one second after issuance was presented two
\* seconds after issuance and the request ended unauthenticated
C19_Witness ==
  /\ resp.op = "access"
  /\ resp.status = "unauthorized"
  /\ \E pair \in issued : pair.accessToken = resp.tokens.accessToken
  /\ resp.tokens.accessToken.payload.exp = resp.tokens.accessToken.payload.iat + 1
  /\ now = resp.tokens.accessToken.payload.iat + 2

\* C20: a malformed stored hash is a verification failure.  No login and no
\* refresh ends in an unhandled error: a login that does not succeed ends as
\* credential rejected or unknown handle, a refresh that does not succeed ends
\* unauthenticated.
C20_MalformedHashRejects ==
  resp.op \in {"login", "refresh"} => resp.status # "error"

\* C21: deleteRole on a role with an assigned identity ends in a conflict and
\* leaves the roles as they were, and whatever deletions, user creations and
\* role reassignments interleave, no identity references a deactivated role.
C21_NoIdentityOnDeletedRole ==
  [][/\ (resp' # resp /\ resp'.op = "deleteRole" /\ resp'.status = "conflict")
          => roles' = roles /\ users' = users
     /\ \A p \in Procs :
          (pc[p] = "idle" /\ pc'[p] = "role_deactivate")
            => CountUsers(local'[p].roleId) = 0
     /\ \A u \in UserIds :
          users'[u].exists => roles'[users'[u].roleId].isActive]_vars

\* C22: in every refresh that returns tokens, the token handed to
\* AuthService.refresh matched the stored hash before any token was minted, the
\* hash of the returned refresh token is stored when the tokens are returned,
\* and no refresh reaches minting or returns without that match.
C22_RefreshOrdering ==
  [][/\ \A p \in Procs :
          (pc'[p] = "tokens" /\ pc[p] # "tokens" /\ local'[p].op = "refresh")
            => /\ pc[p] = "idle"
               /\ users[local'[p].uid].exists
               /\ ~users[local'[p].uid].hashedRefreshToken.isNull
               /\ Argon2Verify(users[local'[p].uid].hashedRefreshToken,
                               local'[p].compared)
               /\ local'[p].tokens = NoPair
     /\ \A p \in Procs :
          (pc'[p] = "rotate" /\ pc[p] # "rotate" /\ local'[p].op = "refresh")
            => /\ pc[p] = "tokens"
               /\ local[p].op = "refresh"
               /\ local'[p].compared = local[p].compared
     /\ \A p \in Procs :
          (pc[p] = "rotate" /\ pc'[p] = "idle" /\ local[p].op = "refresh")
            => /\ resp'.op = "refresh" /\ resp'.status = "ok"
               /\ resp'.tokens = local[p].tokens
               /\ Argon2Verify(users'[resp'.uid].hashedRefreshToken,
                               resp'.tokens.refreshToken)
     /\ (resp' # resp /\ resp'.op = "refresh" /\ resp'.tokens # NoPair)
          => \E p \in Procs :
               pc[p] = "rotate" /\ local[p].op = "refresh" /\ pc'[p] = "idle"]_vars

C22_Witness ==
  /\ resp.op = "refresh" /\ resp.status = "ok"
  /\ resp.tokens # NoPair
  /\ Argon2Verify(users[resp.uid].hashedRefreshToken, resp.tokens.refreshToken)

C24_KindsNotInterchangeable ==
  /\ \A pair \in issued :
       /\ ~JwtStrategy(pair.refreshToken, now).present
       /\ \A header \in Presentable :
            ~RefreshStrategy(pair.accessToken, header, now).ok
  /\ (resp.op = "access"
        /\ resp.tokens.accessToken \in {pair.refreshToken : pair \in issued})
       => resp.status = "unauthorized" /\ ~resp.user.present
  /\ \A p \in Procs :
       local[p].op = "refresh"
         => local[p].verified \notin {pair.accessToken : pair \in issued}

\* an unexpired refresh token was presented as bearer token and answered 401
\* while the access token of the same pair is still accepted
C24_Witness ==
  /\ resp.op = "access" /\ resp.status = "unauthorized"
  /\ \E pair \in issued :
       /\ resp.tokens.accessToken = pair.refreshToken
       /\ JwtVerify(pair.refreshToken, RefreshSecret, now)
       /\ JwtStrategy(pair.accessToken, now).present
       /\ RefreshStrategy(pair.refreshToken, pair.refreshToken, now).ok

C26_FailedLoginFrame ==
  [][(/\ issued' = {}
      /\ \E p \in Procs :
           /\ pc'[p] # pc[p] \/ resp' # resp
           /\ local[p].op = "login" \/ local'[p].op = "login" \/ resp'.op = "login")
       => \A u \in UserIds :
            /\ users'[u].lastLoginAt = users[u].lastLoginAt
            /\ users'[u].hashedRefreshToken = users[u].hashedRefreshToken
            /\ users'[u].password = users[u].password]_vars

\* the same for the logins that fail before the secret has been verified
C26_RejectedLoginFrame ==
  [][\A p \in Procs, e \in Emails, pw \in Passwords :
       (LoginStart(p, e, pw) /\ pc'[p] = "idle") => users' = users]_vars

\* C27: when changePassword(email, oldPassword, newPassword) has succeeded for
\* an active identity, a login with newPassword passes the checks of login and,
\* for oldPassword different from newPassword, a login with oldPassword does
\* not; a changePassword with a wrong oldPassword is rejected and leaves the
\* stored secret hash as it was.
C27_PasswordChangeRoundTrip ==
  [][/\ (/\ resp.op = "changePassword" /\ resp.status = "ok"
         /\ users[resp.uid].isActive)
          => /\ loginCheck(resp.email, resp.newPassword).status = "pass"
             /\ resp.oldPassword # resp.newPassword
                  => loginCheck(resp.email, resp.oldPassword).status # "pass"
     /\ \A p \in Procs, e \in Emails, o \in Passwords, n \in Passwords :
          (/\ pc[p] = "idle"
           /\ \E u \in FindUniqueByEmail(e) : ~Argon2Verify(users[u].password, o)
           /\ ChangePasswordVerify(p, e, o, n))
            => /\ resp'.op = "changePassword" /\ resp'.status = "unauthorized"
               /\ pc'[p] = "idle"
               /\ users' = users]_vars

\* the second half of C27 alone: a wrong oldPassword is rejected, nothing changes
C27_WrongOldPasswordRejected ==
  [][\A p \in Procs, e \in Emails, o \in Passwords, n \in Passwords :
       (/\ pc[p] = "idle"
        /\ \E u \in FindUniqueByEmail(e) : ~Argon2Verify(users[u].password, o)
        /\ ChangePasswordVerify(p, e, o, n))
         => /\ resp'.op = "changePassword" /\ resp'.status = "unauthorized"
            /\ pc'[p] = "idle"
            /\ users' = users]_vars

\* C28: logout is not undone by a refresh in flight.  Once a logout of an
\* identity has completed and no request of that identity is under way any
\* more, the stored refresh-token hash is null and no presentable token verifies
\* against it, until a login or register completes.
C28_LogoutNotUndone ==
  \A u \in UserIds :
    (/\ loggedOut[u]
     /\ \A p \in Procs : pc[p] = "idle" \/ local[p].uid # u)
      => /\ users[u].hashedRefreshToken.isNull
         /\ Verifying(u) = {}

\* C29: a refresh token is single-use also under concurrency.  When a refresh
\* that presented a token returns its pair, no other refresh that presented the
\* same token has passed the stored-hash check and holds a pair of its own to
\* return.
C29_RefreshSingleUse ==
  [][\A p \in Procs :
       (/\ pc[p] = "rotate" /\ pc'[p] = "idle"
        /\ local[p].op = "refresh"
        /\ resp'.op = "refresh" /\ resp'.tokens # NoPair)
         => \A q \in Procs \ {p} :
              ~(/\ local[q].op = "refresh"
                /\ local[q].compared = local[p].compared
                /\ pc[q] = "rotate"
                /\ local[q].tokens # NoPair)]_vars

\* C30: every rotation supersedes the previous token.  The refresh token a
\* login or refresh returns differs from every refresh token issued before,
\* also within the same clock second, and the token presented to a successful
\* refresh does not verify against the stored hash afterwards.
C30_RotationSupersedes ==
  [][\A p \in Procs :
       (/\ pc[p] = "rotate" /\ pc'[p] = "idle"
        /\ local[p].op \in {"login", "refresh"}
        /\ resp'.tokens # NoPair)
         => /\ resp'.tokens.refreshToken \notin {pair.refreshToken : pair \in issued}
            /\ local[p].op = "refresh"
                 => ~verifyPresented(users'[local[p].uid], local[p].compared)]_vars

\* the same for issuances in a second in which nothing was issued before
C30_SupersedesAcrossSeconds ==
  [][\A p \in Procs :
       (/\ pc[p] = "rotate" /\ pc'[p] = "idle"
        /\ local[p].op \in {"login", "refresh"}
        /\ resp'.tokens # NoPair
        /\ \A pair \in issued :
             pair.refreshToken.payload.iat # resp'.tokens.refreshToken.payload.iat)
         => /\ resp'.tokens.refreshToken \notin {pair.refreshToken : pair \in issued}
            /\ local[p].op = "refresh"
                 => ~verifyPresented(users'[local[p].uid], local[p].compared)]_vars

====
